---- MODULE Spec2Model ----
(***************************************************************************)
(* Ingest-to-render pipeline of the HMI dashboard.                         *)
(*                                                                         *)
(*   stores/metrics (src/unnamed/part_000)   addMeasurement, dequeueBatch  *)
(*   mqttClient.ts                           client.on('message')          *)
(*   components/HmiDashboard.vue             onMounted, startFrameLoop,    *)
(*                                           handleResize, onBeforeUnmount *)
(*   workers/renderWorker.ts                 message handler, resize,      *)
(*                                           renderFrame, quantile         *)
(*                                                                         *)
(* Two execution contexts (main thread, render worker) that share nothing  *)
(* and talk through the worker's FIFO message port (toWorker).  Every      *)
(* handler runs to completion, so each handler is one action.  Numbers     *)
(* that are doubles in the source are integers here; a quantile, which     *)
(* may be fractional, is kept in hundredths (see quantile).                *)
(***************************************************************************)
EXTENDS Integers, Sequences, FiniteSets, TLC

\* ------------------------------------------------------------------ bounds
MaxAdds == 2         \* MQTT messages accepted into the buffer in one run
MaxResizes == 1      \* window resize events in one run
MaxNow == 42         \* the clock stops advancing here
CatalogSize == 2     \* descriptors of METRIC_DESCRIPTORS the model keeps
MaxWindow == 5       \* longest window the quantile is tried on
MaxWidthSteps == 15  \* window widths a resize is tried with, 30 px apart
MaxEnsureCalls == 3  \* calls of ensureMqttConnection in one run

\* --------------------------------------------------------------- constants
ClockStep == 42
LatencyCapacity == 360
InitialWidth == 1280
Undefined == "undefined"

\* The twenty descriptors of the dashboard, in catalog order; the pipeline
\* is run on the first CatalogSize of them (METRIC_DESCRIPTORS below).
AllDescriptors ==
  << [metric |-> "speed", label |-> "Speed", unit |-> "km/h"],
     [metric |-> "rpm", label |-> "Engine RPM", unit |-> "rpm"],
     [metric |-> "coolantTemp", label |-> "Coolant Temp", unit |-> "C"],
     [metric |-> "oilTemp", label |-> "Oil Temp", unit |-> "C"],
     [metric |-> "oilPressure", label |-> "Oil Pressure", unit |-> "kPa"],
     [metric |-> "fuelLevel", label |-> "Fuel Level", unit |-> "%"],
     [metric |-> "batteryVoltage", label |-> "Battery Voltage", unit |-> "V"],
     [metric |-> "steeringAngle", label |-> "Steering Angle", unit |-> "deg"],
     [metric |-> "brakePressure", label |-> "Brake Pressure", unit |-> "bar"],
     [metric |-> "throttlePosition", label |-> "Throttle", unit |-> "%"],
     [metric |-> "gear", label |-> "Gear", unit |-> ""],
     [metric |-> "ambientTemp", label |-> "Ambient Temp", unit |-> "C"],
     [metric |-> "intakeTemp", label |-> "Intake Temp", unit |-> "C"],
     [metric |-> "boostPressure", label |-> "Boost Pressure", unit |-> "kPa"],
     [metric |-> "suspensionFL", label |-> "Suspension FL", unit |-> "mm"],
     [metric |-> "suspensionFR", label |-> "Suspension FR", unit |-> "mm"],
     [metric |-> "suspensionRL", label |-> "Suspension RL", unit |-> "mm"],
     [metric |-> "suspensionRR", label |-> "Suspension RR", unit |-> "mm"],
     [metric |-> "gForceLat", label |-> "Lateral G", unit |-> "g"],
     [metric |-> "gForceLong", label |-> "Longitudinal G", unit |-> "g"] >>

METRIC_DESCRIPTORS == SubSeq(AllDescriptors, 1, CatalogSize)

CatalogIds(ms) == {ms[i].metric : i \in 1..Len(ms)}

\* ------------------------------------------------------------ payload space
\* What the producer publishes: one catalogued metric and one metric the
\* dashboard has no descriptor for.
WireMetrics == {"speed", "tirePressure"}
Widths == {800}

WireLabel(m) == IF m = "speed" THEN "Speed" ELSE "Tire Pressure"
WireUnit(m) == IF m = "speed" THEN "km/h" ELSE "kPa"

\* A received MQTT message body, by what JSON.parse makes of it:
\*   "payload"   an object with all five MetricPayload fields
\*   "partial"   an object without label and unit ({"metric":..,"value":..,
\*               "timestamp":..}): valid JSON, not a MetricPayload
\*   "null"      the JSON text null
\*   "garbage"   not JSON at all
WireKinds == {"payload", "partial", "null", "garbage"}

VARIABLES
  \* main thread: stores/metrics
  storeMetrics,     \* metrics: Record<string, MetricPayload>
  queue,            \* queue: MetricPayload[]
  \* main thread: mqttClient.ts / HmiDashboard.vue
  client,           \* module-level client is non-null
  connection,       \* what ensureMqttConnection has done so far: clients
                    \* connected, 'message' handlers registered on them,
                    \* calls made, and which client the calls returned
  workerRef,        \* workerRef.value is non-null
  animationId,      \* a frame-loop callback is scheduled
  resizeListener,   \* handleResize is registered on window
  \* message port main -> worker, and the worker's liveness
  toWorker,
  workerAlive,
  \* render worker: module-level state of renderWorker.ts
  canvas,           \* canvas is non-null
  ctx,              \* ctx is non-null
  width,
  metrics,          \* the catalog received with init
  metricState,      \* Map<string, MetricRenderState>, as a function
  dirtyMetrics,
  needsFullRedraw,
  lastFrameTime,
  fps,
  latencySamples,
  workerRaf,        \* renderFrame is scheduled in the worker
  debugOut,         \* the last debug message posted to the main thread
  surface,          \* the value text each card of the canvas shows; a card
                    \* outside the domain shows none
  \* environment
  now,              \* performance.now(), shared clock
  contextAvailable, \* whether getContext('2d') yields a context
  contextError,     \* a handler threw 'Unable to acquire 2D context'
  \* history (not program state)
  addedLog,         \* payloads stored by addMeasurement, in call order
  drainedLog,       \* concatenation of all dequeueBatch results
  appliedLog,       \* updates applied by the metricsBatch handler, in order
  sampleLog,        \* every latency sample ever pushed, in order
  lastPass,         \* what the last render pass cleared and painted, where,
                    \* and how many debug messages the frame posted
  resizedSincePass, \* a resize was handled after the last render pass
  resizes,          \* resize events so far
  unmounted

mainVars == <<storeMetrics, queue, client, connection, workerRef, animationId,
              resizeListener>>
portVars == <<toWorker, workerAlive>>
workerVars == <<canvas, ctx, width, metrics, metricState, dirtyMetrics,
                needsFullRedraw, lastFrameTime, fps, latencySamples,
                workerRaf, debugOut, surface>>
envVars == <<now, contextAvailable, contextError>>
histVars == <<addedLog, drainedLog, appliedLog, sampleLog, lastPass,
              resizedSincePass, resizes, unmounted>>
vars == <<mainVars, portVars, workerVars, envVars, histVars>>

\* ------------------------------------------------------------------ helpers
EmptyMap == [m \in {} |-> 0]
NoPass == [kind |-> "never", cleared |-> <<>>, painted |-> <<>>, rects |-> <<>>,
           reports |-> 0]
NoDebug == [type |-> "none"]
NoConnection == [connects |-> 0, handlers |-> 0, calls |-> 0, returned |-> {}]
OneConnection == [connects |-> 1, handlers |-> 1, calls |-> 1, returned |-> {1}]

\* The five fields of a payload, without its identity.
Content(p) == [metric |-> p.metric, label |-> p.label, unit |-> p.unit,
               value |-> p.value, timestamp |-> p.timestamp]

WellFormed(p) == p.label # Undefined /\ p.unit # Undefined


\* ------------------------------------------------------- stores/metrics
\* addMeasurement: metrics[payload.metric] = payload; queue.push(payload).
addMeasurement(st, payload) ==
  [metrics |-> (payload.metric :> payload) @@ st.metrics,
   queue |-> Append(st.queue, payload)]

\* slice() in place of splice(): the queue keeps what it returned.
dequeueBatchKeepsQueue(q) ==
  IF Len(q) = 0
  THEN [result |-> <<>>, queue |-> q]
  ELSE [result |-> SubSeq(q, 1, Len(q)), queue |-> q]

\* dequeueBatch: [] on an empty queue, else queue.splice(0, queue.length),
\* which returns every element and leaves the queue empty.
dequeueBatch(q) ==
  IF Len(q) = 0
  THEN [result |-> <<>>, queue |-> q]
  ELSE [result |-> SubSeq(q, 1, Len(q)), queue |-> <<>>]

\* ------------------------------------------------------------ mqttClient.ts
\* JSON.parse(payload.toString()) as MetricPayload: the cast checks nothing.
\* threw: JSON.parse raised; isNull: it returned null; else the object.
JsonParse(msg) ==
  CASE msg.kind = "garbage" -> [threw |-> TRUE, isNull |-> FALSE, value |-> msg]
    [] msg.kind = "null" -> [threw |-> FALSE, isNull |-> TRUE, value |-> msg]
    [] msg.kind = "partial" ->
         [threw |-> FALSE, isNull |-> FALSE,
          value |-> [metric |-> msg.metric, label |-> Undefined, unit |-> Undefined,
                     value |-> msg.value, timestamp |-> msg.timestamp]]
    [] OTHER ->
         [threw |-> FALSE, isNull |-> FALSE,
          value |-> [metric |-> msg.metric, label |-> WireLabel(msg.metric),
                     unit |-> WireUnit(msg.metric),
                     value |-> msg.value, timestamp |-> msg.timestamp]]

\* The body of client.on('message'): the try block stores whatever was
\* decoded; the catch covers JSON.parse raising and addMeasurement raising
\* on payload.metric of null (before anything is written).
onMessage(st, msg, uid) ==
  LET decoded == JsonParse(msg) IN
  IF decoded.threw \/ decoded.isNull
  THEN st
  ELSE addMeasurement(st, decoded.value @@ [uid |-> uid])

WireMessages ==
  { [kind |-> "payload", metric |-> "speed", value |-> 87, timestamp |-> 0],
    [kind |-> "payload", metric |-> "tirePressure", value |-> 30, timestamp |-> 0],
    [kind |-> "partial", metric |-> "speed", value |-> 55, timestamp |-> ClockStep],
    [kind |-> "null", metric |-> Undefined, value |-> 0, timestamp |-> 0],
    [kind |-> "garbage", metric |-> Undefined, value |-> 0, timestamp |-> 0] }

\* An MQTT message reaches every 'message' handler registered on a
\* connected client, one after the other.
RECURSIVE deliver(_, _, _, _)
deliver(st, msg, uid, handlers) ==
  IF handlers = 0 THEN st
  ELSE deliver(onMessage(st, msg, uid), msg, uid + 1, handlers - 1)

\* ensureMqttConnection without the early return: every call connects a
\* client of its own and registers a handler on it.
ensureMqttConnectionAlwaysConnects(cl, conn) ==
  [client |-> TRUE,
   connection |-> [connects |-> conn.connects + 1,
                   handlers |-> conn.handlers + 1,
                   calls |-> conn.calls + 1,
                   returned |-> conn.returned \cup {conn.connects + 1}]]

\* ensureMqttConnection(): return the module-level client when there is
\* one; otherwise connect, register the handlers and return the new client.
\* Clients are numbered in the order they are connected, so the
\* module-level client is the one numbered conn.connects.
ensureMqttConnection(cl, conn) ==
  IF cl
  THEN [client |-> cl,
        connection |-> [conn EXCEPT !.calls = @ + 1,
                                    !.returned = @ \cup {conn.connects}]]
  ELSE [client |-> TRUE,
        connection |-> [connects |-> conn.connects + 1,
                        handlers |-> conn.handlers + 1,
                        calls |-> conn.calls + 1,
                        returned |-> conn.returned \cup {conn.connects + 1}]]

\* ---------------------------------------------------------------- initial
Init ==
  /\ storeMetrics = EmptyMap
  /\ queue = <<>>
  /\ client = FALSE
  /\ connection = NoConnection
  /\ workerRef = FALSE
  /\ animationId = FALSE
  /\ resizeListener = FALSE
  /\ toWorker = <<>>
  /\ workerAlive = FALSE
  /\ canvas = FALSE
  /\ ctx = FALSE
  /\ width = InitialWidth
  /\ metrics = <<>>
  /\ metricState = EmptyMap
  /\ dirtyMetrics = {}
  /\ needsFullRedraw = TRUE
  /\ lastFrameTime = 0
  /\ fps = 60
  /\ latencySamples = <<>>
  /\ workerRaf = FALSE
  /\ debugOut = NoDebug
  /\ surface = EmptyMap
  /\ now = 0
  /\ contextAvailable \in BOOLEAN
  /\ contextError = FALSE
  /\ addedLog = <<>>
  /\ drainedLog = <<>>
  /\ appliedLog = <<>>
  /\ sampleLog = <<>>
  /\ lastPass = NoPass
  /\ resizedSincePass = FALSE
  /\ resizes = 0
  /\ unmounted = FALSE

\* ------------------------------------------------------ HmiDashboard.vue
\* onMounted with a setupWorker that creates the worker and posts nothing.
MountWithoutInit ==
  /\ ~workerRef /\ ~unmounted
  /\ client' = ensureMqttConnection(client, connection).client
  /\ connection' = ensureMqttConnection(client, connection).connection
  /\ workerRef' = TRUE
  /\ workerAlive' = TRUE
  /\ resizeListener' = TRUE
  /\ animationId' = TRUE
  /\ UNCHANGED <<storeMetrics, queue, toWorker, workerVars, envVars, histVars>>

\* onMounted: ensureMqttConnection(); setupWorker(canvas) creates the worker
\* and posts init; the resize listener is added; startFrameLoop schedules
\* the first loop callback.
Mount ==
  /\ ~workerRef /\ ~unmounted
  /\ client' = ensureMqttConnection(client, connection).client
  /\ connection' = ensureMqttConnection(client, connection).connection
  /\ workerRef' = TRUE
  /\ workerAlive' = TRUE
  /\ toWorker' = Append(toWorker, [type |-> "init", metrics |-> METRIC_DESCRIPTORS,
                                   width |-> InitialWidth])
  /\ resizeListener' = TRUE
  /\ animationId' = TRUE
  /\ UNCHANGED <<storeMetrics, queue, workerVars, envVars, histVars>>

\* client.on('message'): one MQTT message arrives.
MqttMessage ==
  /\ client
  /\ Len(addedLog) < MaxAdds
  /\ \E msg \in WireMessages :
       LET st == deliver([metrics |-> storeMetrics, queue |-> queue], msg,
                         Len(addedLog) + 1, connection.handlers)
       IN /\ storeMetrics' = st.metrics
          /\ queue' = st.queue
          /\ addedLog' = addedLog \o SubSeq(st.queue, Len(queue) + 1, Len(st.queue))
  /\ UNCHANGED <<client, connection, workerRef, animationId, resizeListener, portVars,
                 workerVars, envVars, drainedLog, appliedLog, sampleLog,
                 lastPass, resizedSincePass, resizes, unmounted>>

\* ensureMqttConnection() called once more, by whatever imports it.
EnsureMqttConnection ==
  /\ connection.calls < MaxEnsureCalls
  /\ client' = ensureMqttConnection(client, connection).client
  /\ connection' = ensureMqttConnection(client, connection).connection
  /\ UNCHANGED <<storeMetrics, queue, workerRef, animationId, resizeListener,
                 portVars, workerVars, envVars, histVars>>

\* The loop callback of startFrameLoop: drain, post one metricsBatch when
\* there is something to post and a worker to post to, reschedule.
\* One message per payload in place of one per tick.
FrameMessagesPerPayload(updates, hasWorker) ==
  IF Len(updates) # 0 /\ hasWorker
  THEN [i \in 1..Len(updates) |-> [type |-> "metricsBatch", updates |-> <<updates[i]>>]]
  ELSE <<>>

\* The batch carries only the newest payload of the tick.
FrameMessagesLatestOnly(updates, hasWorker) ==
  IF Len(updates) # 0 /\ hasWorker
  THEN << [type |-> "metricsBatch", updates |-> <<updates[Len(updates)]>>] >>
  ELSE <<>>

FrameMessages(updates, hasWorker) ==
  IF Len(updates) # 0 /\ hasWorker
  THEN << [type |-> "metricsBatch", updates |-> updates] >>
  ELSE <<>>

Tick ==
  /\ animationId
  /\ LET d == dequeueBatch(queue)
         out == FrameMessages(d.result, workerRef)
     IN /\ queue' = d.queue
        /\ toWorker' = toWorker \o out
        /\ drainedLog' = drainedLog \o d.result
  /\ animationId' = TRUE
  /\ UNCHANGED <<storeMetrics, client, connection, workerRef, resizeListener, workerAlive,
                 workerVars, envVars, addedLog, appliedLog, sampleLog,
                 lastPass, resizedSincePass, resizes, unmounted>>

\* handleResize, run by a window resize event (canvasRef is set whenever the
\* component is mounted).
WindowResize ==
  /\ resizeListener
  /\ resizes < MaxResizes
  /\ workerRef
  /\ \E w \in Widths :
       toWorker' = Append(toWorker, [type |-> "resize", width |-> w])
  /\ resizes' = resizes + 1
  /\ UNCHANGED <<mainVars, workerAlive, workerVars, envVars, addedLog, drainedLog,
                 appliedLog, sampleLog, lastPass, resizedSincePass, unmounted>>

\* onBeforeUnmount without cancelAnimationFrame.
UnmountKeepsLoop ==
  /\ workerRef /\ ~unmounted
  /\ resizeListener' = FALSE
  /\ workerAlive' = FALSE
  /\ unmounted' = TRUE
  /\ UNCHANGED <<storeMetrics, queue, client, connection, workerRef, animationId, toWorker,
                 workerVars, envVars, addedLog, drainedLog, appliedLog, sampleLog,
                 lastPass, resizedSincePass, resizes>>

\* onBeforeUnmount: cancel the frame loop, drop the listener, terminate the
\* worker.  The MQTT client and the store are module-level and live on.
Unmount ==
  /\ workerRef /\ ~unmounted
  /\ animationId' = FALSE
  /\ resizeListener' = FALSE
  /\ workerAlive' = FALSE
  /\ unmounted' = TRUE
  /\ UNCHANGED <<storeMetrics, queue, client, connection, workerRef, toWorker, workerVars,
                 envVars, addedLog, drainedLog, appliedLog, sampleLog,
                 lastPass, resizedSincePass, resizes>>


\* ---------------------------------------------------------- renderWorker.ts
\* Array.prototype.sort((a, b) => a - b): ascending.  Partitioning around
\* the middle element keeps the recursion shallow on a window of 360.
RECURSIVE SortAsc(_)
SortAsc(s) ==
  IF Len(s) <= 1 THEN s
  ELSE LET pivot == s[(Len(s) + 1) \div 2]
           Less(x) == x < pivot
           Same(x) == x = pivot
           More(x) == x > pivot
       IN SortAsc(SelectSeq(s, Less)) \o SelectSeq(s, Same) \o SortAsc(SelectSeq(s, More))

\* The quantile taken over the window as it stands, without sorting a copy.
quantileUnsorted(values, q) ==
  IF Len(values) = 0 THEN 0
  ELSE LET sorted == values
           index100 == (Len(sorted) - 1) * q
           lower == index100 \div 100
           upper == IF index100 % 100 = 0 THEN lower ELSE lower + 1
           weight100 == index100 - lower * 100
       IN IF lower = upper
          THEN sorted[lower + 1] * 100
          ELSE sorted[lower + 1] * (100 - weight100) + sorted[upper + 1] * weight100

\* quantile(values, q).  q is given in hundredths (50 for 0.5, 95 for 0.95)
\* and the result is in hundredths of a millisecond, so that
\*   sorted[lower] * (1 - weight) + sorted[upper] * weight
\* is exact: index = index100 / 100, weight = weight100 / 100.  Sequences
\* are 1-based, hence the + 1 on every rank.
quantile(values, q) ==
  IF Len(values) = 0 THEN 0
  ELSE LET sorted == SortAsc(values)
           index100 == (Len(sorted) - 1) * q
           lower == index100 \div 100
           upper == IF index100 % 100 = 0 THEN lower ELSE lower + 1
           weight100 == index100 - lower * 100
       IN IF lower = upper
          THEN sorted[lower + 1] * 100
          ELSE sorted[lower + 1] * (100 - weight100) + sorted[upper + 1] * weight100

\* The trim cuts the newest samples instead of the oldest.
pushSampleKeepsOldest(samples, sample) ==
  LET pushed == Append(samples, sample) IN
  IF Len(pushed) > LatencyCapacity
  THEN SubSeq(pushed, 1, LatencyCapacity)
  ELSE pushed

\* latencySamples.push(sample) followed by the trim to the last 360.
pushSample(samples, sample) ==
  LET pushed == Append(samples, sample) IN
  IF Len(pushed) > LatencyCapacity
  THEN SubSeq(pushed, Len(pushed) - LatencyCapacity + 1, Len(pushed))
  ELSE pushed

\* The sample is taken as timestamp - now.
applyUpdateSampleReversed(ws, update, t) ==
  LET sample == update.timestamp - t IN
  [metricState |->
     IF update.metric \notin DOMAIN ws.metricState
     THEN (update.metric :> Content(update)) @@ ws.metricState
     ELSE [ws.metricState EXCEPT ![update.metric].value = update.value,
                                 ![update.metric].timestamp = update.timestamp],
   latencySamples |-> pushSample(ws.latencySamples, sample),
   dirtyMetrics |-> ws.dirtyMetrics \cup {update.metric},
   pushed |-> Append(ws.pushed, sample)]

\* An update of a known metric adds to its value instead of replacing it.
applyUpdateAccumulates(ws, update, t) ==
  LET sample == t - update.timestamp IN
  [metricState |->
     IF update.metric \notin DOMAIN ws.metricState
     THEN (update.metric :> Content(update)) @@ ws.metricState
     ELSE [ws.metricState EXCEPT ![update.metric].value = @ + update.value,
                                 ![update.metric].timestamp = update.timestamp],
   latencySamples |-> pushSample(ws.latencySamples, sample),
   dirtyMetrics |-> ws.dirtyMetrics \cup {update.metric},
   pushed |-> Append(ws.pushed, sample)]

\* An update replaces the whole map by its own entry.
applyUpdateReplacesMap(ws, update, t) ==
  LET sample == t - update.timestamp IN
  [metricState |-> (update.metric :> Content(update)),
   latencySamples |-> pushSample(ws.latencySamples, sample),
   dirtyMetrics |-> ws.dirtyMetrics \cup {update.metric},
   pushed |-> Append(ws.pushed, sample)]

\* An update of a known metric replaces its state by a copy of the update.
applyUpdateReplacesState(ws, update, t) ==
  LET sample == t - update.timestamp IN
  [metricState |-> (update.metric :> Content(update)) @@ ws.metricState,
   latencySamples |-> pushSample(ws.latencySamples, sample),
   dirtyMetrics |-> ws.dirtyMetrics \cup {update.metric},
   pushed |-> Append(ws.pushed, sample)]

\* The body of data.updates.forEach in the metricsBatch handler, at clock t.
\* ws holds metricState, latencySamples, dirtyMetrics; ws.pushed records the
\* samples handed to push, in order.
applyUpdate(ws, update, t) ==
  LET sample == t - update.timestamp IN
  [metricState |->
     IF update.metric \notin DOMAIN ws.metricState
     THEN (update.metric :> Content(update)) @@ ws.metricState
     ELSE [ws.metricState EXCEPT ![update.metric].value = update.value,
                                 ![update.metric].timestamp = update.timestamp],
   latencySamples |-> pushSample(ws.latencySamples, sample),
   dirtyMetrics |-> ws.dirtyMetrics \cup {update.metric},
   pushed |-> Append(ws.pushed, sample)]

\* The updates of a batch applied newest first.
RECURSIVE applyBatchNewestFirst(_, _, _)
applyBatchNewestFirst(ws, updates, t) ==
  IF updates = <<>> THEN ws
  ELSE applyUpdate(applyBatchNewestFirst(ws, Tail(updates), t), Head(updates), t)

RECURSIVE applyBatch(_, _, _)
applyBatch(ws, updates, t) ==
  IF updates = <<>> THEN ws
  ELSE applyBatch(applyUpdate(ws, Head(updates), t), Tail(updates), t)

\* resize() marking every descriptor of the dashboard, not only the catalog
\* it was initialised with.
resizeDirtyAllDescriptors(dirty, ms) == CatalogIds(AllDescriptors)

\* resize() that stops after dirtyMetrics.clear().
resizeDirtyClearsOnly(dirty, ms) == {}

\* resize(): dirtyMetrics.clear(); metrics.forEach(m => dirtyMetrics.add(m.metric)).
resizeDirty(dirty, ms) == CatalogIds(ms)

\* The init loop starting at the second descriptor.
seedStateSkipsFirst(state, ms) ==
  [m \in DOMAIN state \cup CatalogIds(Tail(ms)) |->
     IF m \in CatalogIds(Tail(ms))
     THEN LET d == CHOOSE d \in {ms[i] : i \in 1..Len(ms)} : d.metric = m
          IN [metric |-> m, label |-> d.label, unit |-> d.unit,
              value |-> 0, timestamp |-> 0]
     ELSE state[m]]

\* The init loop: a MetricRenderState {...descriptor, value: 0, timestamp: 0}
\* is set for every descriptor, replacing what the map held for that id.
seedState(state, ms) ==
  [m \in DOMAIN state \cup CatalogIds(ms) |->
     IF m \in CatalogIds(ms)
     THEN LET d == CHOOSE d \in {ms[i] : i \in 1..Len(ms)} : d.metric = m
          IN [metric |-> m, label |-> d.label, unit |-> d.unit,
              value |-> 0, timestamp |-> 0]
     ELSE state[m]]

\* The catalog ids, in catalog order, that satisfy keep.
RECURSIVE CatalogFilter(_, _, _)
CatalogFilter(ms, keep, i) ==
  IF i > Len(ms) THEN <<>>
  ELSE (IF ms[i].metric \in keep THEN <<ms[i].metric>> ELSE <<>>)
       \o CatalogFilter(ms, keep, i + 1)

\* computeCardRect counting only the gaps between the columns.
computeCardRectInnerGaps(w, index) ==
  LET columns == 4
      gap == 16
      cardWidthQ == w - gap * (columns - 1)
      cardHeight == 120
      xIndex == index % columns
      yIndex == index \div columns
  IN [xQ |-> gap * columns + xIndex * (cardWidthQ + gap * columns),
      y |-> gap + yIndex * (cardHeight + gap),
      cardWidthQ |-> cardWidthQ,
      cardHeight |-> cardHeight]

\* computeCardRect(index) at the current width.  cardWidth is a quarter of
\* width - 80 and need not be whole, so cardWidth and x are kept in
\* quarters of a pixel (cardWidthQ = 4 * cardWidth, xQ = 4 * x).
computeCardRect(w, index) ==
  LET columns == 4
      gap == 16
      cardWidthQ == w - gap * (columns + 1)
      cardHeight == 120
      xIndex == index % columns
      yIndex == index \div columns
  IN [xQ |-> gap * columns + xIndex * (cardWidthQ + gap * columns),
      y |-> gap + yIndex * (cardHeight + gap),
      cardWidthQ |-> cardWidthQ,
      cardHeight |-> cardHeight]

\* The 0-based forEach index of a catalog id.
CatalogIndex(ms, id) == (CHOOSE i \in 1..Len(ms) : ms[i].metric = id) - 1

\* The rectangle drawMetric computes for each card of ids.
cardRects(ms, ids, w) ==
  [k \in 1..Len(ids) |-> computeCardRect(w, CatalogIndex(ms, ids[k]))]

\* renderFrame reporting only the frames that drew something.
debugReportsOnlyOnRedraw(kind, fpsNow, renderMs, samples) ==
  IF kind = "none" THEN <<>>
  ELSE << [type |-> "debug", fps |-> fpsNow, renderMs |-> renderMs,
           latencyP50 |-> quantile(samples, 50),
           latencyP95 |-> quantile(samples, 95)] >>

\* The messages renderFrame posts to the main thread once the drawing
\* branch (of the given kind) is done.
debugReports(kind, fpsNow, renderMs, samples) ==
  << [type |-> "debug", fps |-> fpsNow, renderMs |-> renderMs,
      latencyP50 |-> quantile(samples, 50),
      latencyP95 |-> quantile(samples, 95)] >>

\* The drawing branch repainting every card whenever something is dirty.
renderPassRepaintsAll(full, dirty, ms, state) ==
  IF full
  THEN [kind |-> "full", cleared |-> <<>>,
        painted |-> CatalogFilter(ms, DOMAIN state, 1),
        needsFullRedraw |-> FALSE, dirtyMetrics |-> {}]
  ELSE IF Cardinality(dirty) > 0
  THEN [kind |-> "partial", cleared |-> CatalogFilter(ms, DOMAIN state, 1),
        painted |-> CatalogFilter(ms, DOMAIN state, 1),
        needsFullRedraw |-> full, dirtyMetrics |-> {}]
  ELSE [kind |-> "none", cleared |-> <<>>, painted |-> <<>>,
        needsFullRedraw |-> full, dirtyMetrics |-> dirty]

\* The drawing branch of renderFrame: which cards clearMetricArea clears and
\* which drawMetric paints (a card is painted only if its metric has state),
\* both in catalog order, and the flag and set it leaves behind.
renderPass(full, dirty, ms, state) ==
  IF full
  THEN [kind |-> "full", cleared |-> <<>>,
        painted |-> CatalogFilter(ms, DOMAIN state, 1),
        needsFullRedraw |-> FALSE, dirtyMetrics |-> {}]
  ELSE IF Cardinality(dirty) > 0
  THEN [kind |-> "partial", cleared |-> CatalogFilter(ms, dirty, 1),
        painted |-> CatalogFilter(ms, dirty \cap DOMAIN state, 1),
        needsFullRedraw |-> full, dirtyMetrics |-> {}]
  ELSE [kind |-> "none", cleared |-> <<>>, painted |-> <<>>,
        needsFullRedraw |-> full, dirtyMetrics |-> dirty]

\* `${metric.value}` for a non-negative integer: its decimal digits.
RECURSIVE valueText(_)
valueText(v) ==
  IF v < 10 THEN <<v>> ELSE Append(valueText(v \div 10), v % 10)

SeqRange(q) == {q[i] : i \in 1..Len(q)}

\* A partial pass that clears the dirty cards and draws nothing on them.
paintSurfaceClearsOnly(surf, pass, state) ==
  IF pass.kind = "full"
  THEN [m \in SeqRange(pass.painted) |-> valueText(state[m].value)]
  ELSE [m \in DOMAIN surf \ SeqRange(pass.cleared) |-> surf[m]]

\* What the canvas shows after the drawing branch of renderFrame:
\* drawBackground covers every card and drawMetric writes the value of each
\* card it paints; clearMetricArea erases a card, whose rectangle (with its
\* margin of 2 inside a gap of 16) touches no other card.
paintSurface(surf, pass, state) ==
  IF pass.kind = "full"
  THEN [m \in SeqRange(pass.painted) |-> valueText(state[m].value)]
  ELSE [m \in (DOMAIN surf \ SeqRange(pass.cleared)) \cup SeqRange(pass.painted) |->
          IF m \in SeqRange(pass.painted) THEN valueText(state[m].value)
          ELSE surf[m]]

WorkerReady == workerAlive /\ toWorker # <<>>

\* case 'init' requesting the first frame before resize() has had the
\* chance to throw.
HandleInitSchedulesFirst ==
  /\ WorkerReady
  /\ Head(toWorker).type = "init"
  /\ toWorker' = Tail(toWorker)
  /\ canvas' = TRUE
  /\ metrics' = Head(toWorker).metrics
  /\ width' = Head(toWorker).width
  /\ ctx' = contextAvailable
  /\ workerRaf' = TRUE
  /\ IF contextAvailable
     THEN /\ metricState' = seedState(metricState, Head(toWorker).metrics)
          /\ dirtyMetrics' = resizeDirty(dirtyMetrics, Head(toWorker).metrics)
                               \cup CatalogIds(Head(toWorker).metrics)
          /\ needsFullRedraw' = TRUE
     ELSE UNCHANGED <<metricState, dirtyMetrics, needsFullRedraw>>
  /\ contextError' = (contextError \/ ~contextAvailable)
  /\ surface' = EmptyMap
  /\ UNCHANGED <<mainVars, workerAlive, lastFrameTime, fps, latencySamples,
                 debugOut, now, contextAvailable, histVars>>

\* case 'init'.  resize() runs first and ends in ensureContext(), which
\* assigns ctx and throws when there is no 2D context: then nothing after
\* the call is executed and no frame is requested.
HandleInit ==
  /\ WorkerReady
  /\ Head(toWorker).type = "init"
  /\ toWorker' = Tail(toWorker)
  /\ canvas' = TRUE
  /\ metrics' = Head(toWorker).metrics
  /\ width' = Head(toWorker).width
  /\ ctx' = contextAvailable
  /\ IF contextAvailable
     THEN /\ metricState' = seedState(metricState, Head(toWorker).metrics)
          /\ dirtyMetrics' = resizeDirty(dirtyMetrics, Head(toWorker).metrics)
                               \cup CatalogIds(Head(toWorker).metrics)
          /\ needsFullRedraw' = TRUE
          /\ workerRaf' = TRUE
     ELSE UNCHANGED <<metricState, dirtyMetrics, needsFullRedraw, workerRaf>>
  /\ contextError' = (contextError \/ ~contextAvailable)
  /\ surface' = EmptyMap
  /\ UNCHANGED <<mainVars, workerAlive, lastFrameTime, fps, latencySamples,
                 debugOut, now, contextAvailable, histVars>>

\* resize() without needsFullRedraw = true.
HandleResizeNoFullRedraw ==
  /\ WorkerReady
  /\ Head(toWorker).type = "resize"
  /\ toWorker' = Tail(toWorker)
  /\ width' = Head(toWorker).width
  /\ resizedSincePass' = TRUE
  /\ ctx' = contextAvailable
  /\ dirtyMetrics' = resizeDirty(dirtyMetrics, metrics)
  /\ surface' = EmptyMap
  /\ UNCHANGED <<mainVars, workerAlive, canvas, metrics, metricState, needsFullRedraw,
                 lastFrameTime, fps, latencySamples, workerRaf, debugOut, envVars,
                 addedLog, drainedLog, appliedLog, sampleLog, lastPass, resizes,
                 unmounted>>

\* case 'resize'.  Assigning canvas.width in resize() resets the bitmap, so
\* no card shows anything until the next pass.
HandleResize ==
  /\ WorkerReady
  /\ Head(toWorker).type = "resize"
  /\ toWorker' = Tail(toWorker)
  /\ width' = Head(toWorker).width
  /\ resizedSincePass' = TRUE
  /\ IF ~canvas
     THEN UNCHANGED <<ctx, dirtyMetrics, needsFullRedraw, contextError, surface>>
     ELSE /\ ctx' = contextAvailable
          /\ surface' = EmptyMap
          /\ contextError' = (contextError \/ ~contextAvailable)
          /\ IF contextAvailable
             THEN /\ dirtyMetrics' = resizeDirty(dirtyMetrics, metrics)
                  /\ needsFullRedraw' = TRUE
             ELSE UNCHANGED <<dirtyMetrics, needsFullRedraw>>
  /\ UNCHANGED <<mainVars, workerAlive, canvas, metrics, metricState,
                 lastFrameTime, fps, latencySamples, workerRaf, debugOut, now,
                 contextAvailable, addedLog, drainedLog, appliedLog, sampleLog,
                 lastPass, resizes, unmounted>>

\* case 'metricsBatch'.
HandleBatch ==
  /\ WorkerReady
  /\ Head(toWorker).type = "metricsBatch"
  /\ toWorker' = Tail(toWorker)
  /\ LET updates == Head(toWorker).updates
         ws == applyBatch([metricState |-> metricState,
                           latencySamples |-> latencySamples,
                           dirtyMetrics |-> dirtyMetrics,
                           pushed |-> <<>>], updates, now)
     IN /\ metricState' = ws.metricState
        /\ latencySamples' = ws.latencySamples
        /\ dirtyMetrics' = ws.dirtyMetrics
        /\ appliedLog' = appliedLog \o updates
        /\ sampleLog' = sampleLog \o ws.pushed
  /\ UNCHANGED <<mainVars, workerAlive, canvas, ctx, width, metrics,
                 needsFullRedraw, lastFrameTime, fps, workerRaf, debugOut, surface,
                 envVars, addedLog, drainedLog, lastPass, resizedSincePass,
                 resizes, unmounted>>

\* renderFrame(now), run by the worker's requestAnimationFrame.
RenderFrame ==
  /\ workerAlive /\ workerRaf
  /\ workerRaf' = TRUE
  /\ IF ~ctx
     THEN UNCHANGED <<fps, lastFrameTime, needsFullRedraw, dirtyMetrics, debugOut,
                      surface, lastPass, resizedSincePass>>
     ELSE LET frameDelta == now - lastFrameTime
              pass == renderPass(needsFullRedraw, dirtyMetrics, metrics, metricState)
          IN /\ fps' = IF frameDelta > 0 THEN 1000 \div frameDelta ELSE fps
             /\ lastFrameTime' = now
             /\ needsFullRedraw' = pass.needsFullRedraw
             /\ dirtyMetrics' = pass.dirtyMetrics
             /\ surface' = paintSurface(surface, pass, metricState)
             /\ LET posted == debugReports(pass.kind, fps', 0, latencySamples)
                IN /\ debugOut' = IF posted = <<>> THEN debugOut
                                  ELSE posted[Len(posted)]
                   /\ lastPass' = [kind |-> pass.kind, cleared |-> pass.cleared,
                                   painted |-> pass.painted,
                                   rects |-> cardRects(metrics, pass.painted, width),
                                   reports |-> Len(posted)]
             /\ resizedSincePass' = FALSE
  /\ UNCHANGED <<mainVars, portVars, canvas, ctx, width, metrics, metricState,
                 latencySamples, envVars, addedLog, drainedLog, appliedLog,
                 sampleLog, resizes, unmounted>>

\* Time passes.
AdvanceClock ==
  /\ now < MaxNow
  /\ now' = now + ClockStep
  /\ UNCHANGED <<mainVars, portVars, workerVars, contextAvailable, contextError,
                 histVars>>

Next ==
  \/ Mount
  \/ MqttMessage
  \/ Tick
  \/ WindowResize
  \/ Unmount
  \/ HandleInit
  \/ HandleResize
  \/ HandleBatch
  \/ RenderFrame
  \/ AdvanceClock

Spec == Init /\ [][Next]_vars

\* -------------------------------------------- a session with a full window
\* The pipeline in mid-session: mounted, the worker initialised, window
\* holding the samples of earlier updates.  The logs count from here, but
\* sampleLog carries the samples already pushed.
SessionInit(window) ==
  /\ storeMetrics = EmptyMap
  /\ queue = <<>>
  /\ client = TRUE
  /\ connection = OneConnection
  /\ workerRef = TRUE
  /\ animationId = TRUE
  /\ resizeListener = TRUE
  /\ toWorker = <<>>
  /\ workerAlive = TRUE
  /\ canvas = TRUE
  /\ ctx = TRUE
  /\ width = InitialWidth
  /\ metrics = METRIC_DESCRIPTORS
  /\ metricState = seedState(EmptyMap, METRIC_DESCRIPTORS)
  /\ dirtyMetrics = {}
  /\ needsFullRedraw = FALSE
  /\ lastFrameTime = 0
  /\ fps = 60
  /\ latencySamples = window
  /\ workerRaf = TRUE
  /\ debugOut = NoDebug
  /\ surface = [m \in CatalogIds(METRIC_DESCRIPTORS) |-> valueText(0)]
  /\ now = 0
  /\ contextAvailable = TRUE
  /\ contextError = FALSE
  /\ addedLog = <<>>
  /\ drainedLog = <<>>
  /\ appliedLog = <<>>
  /\ sampleLog = window
  /\ lastPass = NoPass
  /\ resizedSincePass = FALSE
  /\ resizes = 0
  /\ unmounted = FALSE

\* Earlier samples 1, 2, .., k: all different, so that which ones a trim
\* removed can be told.
EarlierSamples(k) == [i \in 1..k |-> i]

InitWindow ==
  \E k \in {LatencyCapacity - 1, LatencyCapacity} : SessionInit(EarlierSamples(k))

NextWindow ==
  \/ MqttMessage
  \/ Tick
  \/ HandleBatch
  \/ RenderFrame
  \/ AdvanceClock

SpecWindow == InitWindow /\ [][NextWindow]_vars

\* ------------------------------------------------- quantile over any window
SampleValues == {10, 20, 30, 40, 50}

RECURSIVE SeqsUpTo(_, _)
SeqsUpTo(S, n) ==
  IF n = 0 THEN {<<>>}
  ELSE LET shorter == SeqsUpTo(S, n - 1)
       IN shorter \cup {Append(w, x) : w \in {v \in shorter : Len(v) = n - 1}, x \in S}

InitQuantile == \E w \in SeqsUpTo(SampleValues, MaxWindow) : SessionInit(w)

NextQuantile == RenderFrame \/ AdvanceClock

SpecQuantile == InitQuantile /\ [][NextQuantile]_vars

\* ------------------------------------------ repeated connection requests
\* The main thread alone, the worker left aside: the dashboard is mounted,
\* ensureMqttConnection is called again and again, messages arrive and the
\* frame loop drains them.
NextConnection ==
  \/ Mount
  \/ EnsureMqttConnection
  \/ MqttMessage
  \/ Tick

SpecConnection == Init /\ [][NextConnection]_vars

\* ------------------------------------------------ the grid of twenty cards
\* The widths a resize of the window can report.
LayoutWidths == {InitialWidth - 30 * k : k \in 0..MaxWidthSteps}

\* The dashboard with its full catalog, right after the worker handled init
\* at the initial width: every card seeded and dirty, a full redraw pending,
\* the first frame requested; the window has been resized once and the
\* resize message is still in flight.
InitLayout ==
  /\ storeMetrics = EmptyMap
  /\ queue = <<>>
  /\ client = TRUE
  /\ connection = OneConnection
  /\ workerRef = TRUE
  /\ animationId = TRUE
  /\ resizeListener = TRUE
  /\ \E w \in LayoutWidths : toWorker = <<[type |-> "resize", width |-> w]>>
  /\ workerAlive = TRUE
  /\ canvas = TRUE
  /\ ctx = TRUE
  /\ width = InitialWidth
  /\ metrics = AllDescriptors
  /\ metricState = seedState(EmptyMap, AllDescriptors)
  /\ dirtyMetrics = CatalogIds(AllDescriptors)
  /\ needsFullRedraw = TRUE
  /\ lastFrameTime = 0
  /\ fps = 60
  /\ latencySamples = <<>>
  /\ workerRaf = TRUE
  /\ debugOut = NoDebug
  /\ surface = EmptyMap
  /\ now = 0
  /\ contextAvailable = TRUE
  /\ contextError = FALSE
  /\ addedLog = <<>>
  /\ drainedLog = <<>>
  /\ appliedLog = <<>>
  /\ sampleLog = <<>>
  /\ lastPass = NoPass
  /\ resizedSincePass = FALSE
  /\ resizes = MaxResizes
  /\ unmounted = FALSE

NextLayout == HandleResize \/ RenderFrame \/ AdvanceClock

SpecLayout == InitLayout /\ [][NextLayout]_vars

\* The message handlers of the worker and the frame loop of the main thread
\* run whenever they are enabled: the event loop delivers every posted
\* message, requestAnimationFrame calls back until it is cancelled.
\* No guard reads the clock, so which handlers can run and which payloads
\* get applied is the same at every reading of it: the fair runs are taken
\* at the initial reading.
NextFair ==
  \/ Mount
  \/ MqttMessage
  \/ Tick
  \/ WindowResize
  \/ Unmount
  \/ HandleInit
  \/ HandleResize
  \/ HandleBatch
  \/ RenderFrame

FairSpec ==
  /\ Init /\ [][NextFair]_vars
  /\ WF_vars(Tick)
  /\ WF_vars(HandleInit)
  /\ WF_vars(HandleResize)
  /\ WF_vars(HandleBatch)

\* ------------------------------------------------------------ properties
IsPrefix(s, t) == Len(s) <= Len(t) /\ SubSeq(t, 1, Len(s)) = s

\* The last entry of log for metric m (log has one).
LastFor(m, log) ==
  log[CHOOSE i \in 1..Len(log) :
        /\ log[i].metric = m
        /\ \A j \in (i + 1)..Len(log) : log[j].metric # m]

LoggedMetrics(log) == {log[i].metric : i \in 1..Len(log)}

BatchInFlight == \E i \in 1..Len(toWorker) : toWorker[i].type = "metricsBatch"

\* C1: the drains so far, followed by what is still pending, are exactly the
\* payloads added, each once and in arrival order; hence a drain with nothing
\* pending returns nothing.
C1_DrainExactlyOnceInOrder ==
  /\ drainedLog \o queue = addedLog
  /\ \A i \in 1..Len(addedLog) : addedLog[i].uid = i

C1_Witness ==
  /\ Len(drainedLog) >= 1
  /\ Len(queue) >= 1
  /\ drainedLog \o queue = addedLog

\* C2: a frame-loop tick posts at most one message: one metricsBatch with
\* everything that was pending, in order, when something was pending and the
\* worker exists, and nothing otherwise.
C2_OneBatchPerTick ==
  [][Tick =>
       IF queue # <<>> /\ workerRef
       THEN toWorker' = Append(toWorker, [type |-> "metricsBatch", updates |-> queue])
       ELSE toWorker' = toWorker]_vars

C2_Witness ==
  \E i \in 1..Len(toWorker) :
    /\ toWorker[i].type = "metricsBatch"
    /\ Len(toWorker[i].updates) = 2
    /\ queue = <<>>

\* C3 as stated: every payload added is eventually applied.
C3_EveryAddedEventuallyApplied ==
  \A k \in 1..MaxAdds : (Len(addedLog) >= k) ~> (Len(appliedLog) >= k)

\* C3 amended: the applied updates are always a prefix of the added payloads
\* (none duplicated, none skipped), and every payload added is eventually
\* applied unless the dashboard is dismissed first.
C3_AppliedOnceUnlessDismissed ==
  /\ [](IsPrefix(appliedLog, addedLog))
  /\ \A k \in 1..MaxAdds :
       (Len(addedLog) >= k) ~> (Len(appliedLog) >= k \/ unmounted)

C3_Witness ==
  /\ Len(appliedLog) = 2
  /\ appliedLog = addedLog
  /\ ~unmounted

\* C4: updates are applied in the order the payloads were added, and once no
\* batch is in flight every metric that was sent an update shows the value
\* and timestamp of the last payload drained for it.
C4_LastUpdateWins ==
  /\ IsPrefix(appliedLog, addedLog)
  /\ ~BatchInFlight =>
       \A m \in LoggedMetrics(drainedLog) :
         /\ m \in DOMAIN metricState
         /\ metricState[m].value = LastFor(m, drainedLog).value
         /\ metricState[m].timestamp = LastFor(m, drainedLog).timestamp

C4_Witness ==
  /\ ~BatchInFlight
  /\ Len(appliedLog) = 2
  /\ appliedLog[1].metric = "speed" /\ appliedLog[2].metric = "speed"
  /\ appliedLog[1].value # appliedLog[2].value
  /\ metricState["speed"].value = appliedLog[2].value

\* C5: the render pass that follows a handled resize is a full redraw that
\* paints every catalog card.
C5_FullRedrawAfterResize ==
  [][resizedSincePass /\ ~resizedSincePass' =>
       /\ lastPass'.kind = "full"
       /\ lastPass'.painted = [i \in 1..Len(metrics) |-> metrics[i].metric]]_vars

C5_Witness ==
  /\ width = 800 /\ ~resizedSincePass
  /\ lastPass.kind = "full"
  /\ lastPass.painted = <<"speed", "rpm">>
  /\ appliedLog # <<>>

\* C6: handling a batch pushes exactly one sample now - timestamp per update,
\* in order, and leaves every updated metric id in the DirtySet.
C6_SamplePerUpdateAndDirty ==
  [][appliedLog' # appliedLog =>
       LET updates == Head(toWorker).updates
           samples == [i \in 1..Len(updates) |-> now - updates[i].timestamp]
       IN /\ sampleLog' = sampleLog \o samples
          /\ Len(latencySamples') >= Len(samples)
          /\ SubSeq(latencySamples', Len(latencySamples') - Len(samples) + 1,
                    Len(latencySamples')) = samples
          /\ \A i \in 1..Len(updates) : updates[i].metric \in dirtyMetrics']_vars

C6_Witness ==
  \E i \in 1..Len(appliedLog) :
    /\ appliedLog[i].metric = "speed" /\ appliedLog[i].value = 87
    /\ appliedLog[i].timestamp = 0
    /\ sampleLog[i] = 42
    /\ latencySamples[i] = 42
    /\ "speed" \in dirtyMetrics

LastN(s, n) == IF Len(s) <= n THEN s ELSE SubSeq(s, Len(s) - n + 1, Len(s))

\* C7: the window never holds more than 360 samples and is always the most
\* recent min(k, 360) of the k samples pushed so far, in arrival order,
\* whatever render frames ran in between.
C7_WindowIsLatestSamples ==
  /\ Len(latencySamples) <= 360
  /\ latencySamples = LastN(sampleLog, 360)

C7_Witness ==
  /\ Len(sampleLog) = 362
  /\ Len(latencySamples) = 360
  /\ latencySamples[1] = 3
  /\ latencySamples[360] = sampleLog[362]
  /\ lastPass.kind = "partial"

\* The sample of 0-based rank k in ascending order, by counting.
OrderStatistic(values, k) ==
  CHOOSE v \in {values[i] : i \in 1..Len(values)} :
    /\ Cardinality({i \in 1..Len(values) : values[i] < v}) <= k
    /\ Cardinality({i \in 1..Len(values) : values[i] <= v}) > k

\* The quantile the contract describes, in hundredths: rank (n-1)q when it
\* is whole, else between the ranks around it, weighted by the fraction.
InterpolatedQuantile(values, q) ==
  IF Len(values) = 0 THEN 0
  ELSE LET rank100 == (Len(values) - 1) * q
           below == rank100 \div 100
           fraction100 == rank100 % 100
       IN IF fraction100 = 0
          THEN 100 * OrderStatistic(values, below)
          ELSE (100 - fraction100) * OrderStatistic(values, below)
               + fraction100 * OrderStatistic(values, below + 1)

QuantilePoints == {0, 25, 50, 95, 100}

\* C8: quantile is 0 on an empty window and otherwise the interpolated order
\* statistic of the window, for the two quantiles every frame reports and
\* for the other points tried.
C8_QuantileIsInterpolatedOrderStatistic ==
  /\ \A q \in QuantilePoints :
       quantile(latencySamples, q) = InterpolatedQuantile(latencySamples, q)
  /\ debugOut.type = "debug" =>
       /\ debugOut.latencyP50 = InterpolatedQuantile(latencySamples, 50)
       /\ debugOut.latencyP95 = InterpolatedQuantile(latencySamples, 95)
  /\ (latencySamples = <<>> /\ debugOut.type = "debug") =>
       debugOut.latencyP50 = 0 /\ debugOut.latencyP95 = 0

C8_Witness ==
  /\ latencySamples = <<30, 10, 50, 20, 40>>
  /\ debugOut.type = "debug"
  /\ debugOut.latencyP50 = 3000
  /\ debugOut.latencyP95 = 4800

\* Every payload content the producer can send, and the times it can be
\* applied at.
WireContents ==
  {Content(JsonParse(msg).value) : msg \in {w \in WireMessages : w.kind \in {"payload", "partial"}}}

\* C9: applied a second time in a row, an update leaves every
\* MetricRenderState as the first application left it, in one batch and
\* across two batches handled at different times.
C9_ApplyTwiceIsApplyOnce ==
  LET ws == [metricState |-> metricState, latencySamples |-> latencySamples,
             dirtyMetrics |-> dirtyMetrics, pushed |-> <<>>]
  IN \A u \in WireContents :
       LET once == applyBatch(ws, <<u>>, now) IN
       /\ applyBatch(ws, <<u, u>>, now).metricState = once.metricState
       /\ applyBatch(once, <<u>>, now + ClockStep).metricState = once.metricState

C9_Witness ==
  /\ Len(appliedLog) = 2
  /\ Content(appliedLog[1]) = Content(appliedLog[2])
  /\ ~BatchInFlight
  /\ metricState[appliedLog[2].metric].value = appliedLog[2].value
  /\ metricState[appliedLog[2].metric].timestamp = appliedLog[2].timestamp
  /\ sampleLog[1] # sampleLog[2]

\* C10 as stated: whatever addMeasurement stored is a well-formed payload.
C10_OnlyWellFormedStored ==
  /\ \A i \in 1..Len(addedLog) : WellFormed(addedLog[i])
  /\ \A i \in 1..Len(queue) : WellFormed(queue[i])

\* C11: every render frame posts exactly one debug report, carrying the
\* frame rate, the render duration and the 50th and 95th percentile of the
\* latency window, whether the frame redrew everything, some cards or
\* nothing.
C11_OneDebugReportPerFrame ==
  [][RenderFrame =>
       /\ lastPass'.kind \in {"full", "partial", "none"}
       /\ lastPass'.reports = 1
       /\ debugOut' = [type |-> "debug", fps |-> fps', renderMs |-> 0,
                       latencyP50 |-> quantile(latencySamples, 50),
                       latencyP95 |-> quantile(latencySamples, 95)]]_vars

C11_Witness ==
  /\ lastPass.kind = "none"
  /\ lastPass.reports = 1
  /\ debugOut.type = "debug"
  /\ latencySamples # <<>>

\* C12: when init could not acquire the drawing context the handler has
\* failed with an error and the engine is not ready: no context is held, no
\* frame is scheduled, no render pass has run and no debug report has been
\* posted, whatever messages arrive afterwards.
C12_NoContextNeverReady ==
  (canvas /\ ~contextAvailable) =>
    /\ contextError
    /\ ~ctx
    /\ ~workerRaf
    /\ lastPass = NoPass
    /\ debugOut = NoDebug

C12_Witness ==
  /\ canvas
  /\ ~contextAvailable
  /\ contextError
  /\ ~workerRaf
  /\ appliedLog # <<>>
  /\ now > 0

\* C13: once the dashboard is torn down the frame loop is cancelled, the
\* resize listener is gone and the worker is terminated; from then on no
\* tick drains the queue, no message is posted to or handled by the worker,
\* and the worker's state, render passes and debug reports stay as they were.
C13_NothingAfterTeardown ==
  /\ [](unmounted => ~animationId /\ ~resizeListener /\ ~workerAlive)
  /\ [][unmounted =>
          /\ ~animationId'
          /\ toWorker' = toWorker
          /\ drainedLog' = drainedLog
          /\ resizes' = resizes
          /\ appliedLog' = appliedLog
          /\ lastPass' = lastPass
          /\ UNCHANGED workerVars]_vars

C13_Witness ==
  /\ unmounted
  /\ queue # <<>>
  /\ toWorker # <<>>
  /\ workerRaf
  /\ dirtyMetrics # {}

\* The ids the catalog lists, in catalog order.
CatalogSeq == [i \in 1..Len(metrics) |-> metrics[i].metric]

\* C14 as stated: the DirtySet holds catalog ids only.
C14_DirtyWithinCatalog == dirtyMetrics \subseteq CatalogIds(metrics)

\* C14 amended: every id in the DirtySet is a catalog id or the id carried
\* by an update that was applied.
C14_DirtyWithinCatalogOrApplied ==
  dirtyMetrics \subseteq CatalogIds(metrics) \cup LoggedMetrics(appliedLog)

C14_Witness ==
  /\ "tirePressure" \in dirtyMetrics
  /\ "tirePressure" \notin CatalogIds(metrics)
  /\ "speed" \in dirtyMetrics
  /\ resizes = 1 /\ toWorker = <<>>

\* C15 as stated: only catalog ids have a MetricRenderState, and a state
\* once present is never removed.
C15_StatesWithinCatalog ==
  /\ [](DOMAIN metricState \subseteq CatalogIds(metrics))
  /\ [][DOMAIN metricState \subseteq DOMAIN metricState']_vars

\* C15 amended: every id with a MetricRenderState is a catalog id or the id
\* carried by an update that was applied, and a state once present is never
\* removed.
C15_StatesWithinCatalogOrApplied ==
  /\ [](DOMAIN metricState \subseteq CatalogIds(metrics) \cup LoggedMetrics(appliedLog))
  /\ [](LoggedMetrics(appliedLog) \subseteq DOMAIN metricState)
  /\ [][DOMAIN metricState \subseteq DOMAIN metricState']_vars

C15_Witness ==
  /\ ctx
  /\ DOMAIN metricState = CatalogIds(metrics) \cup {"tirePressure"}
  /\ Len(appliedLog) = 2
  /\ lastPass.kind = "partial"

\* C16: handling init with a context available seeds a state of value 0 and
\* timestamp 0 for every catalog entry, marks every catalog id dirty, sets
\* the full-redraw flag and schedules the first frame; the first render
\* pass is a full one that paints every catalog card, in catalog order.
C16_InitSeedsAndFirstPassPaintsAll ==
  /\ [][(HandleInit /\ contextAvailable) =>
          /\ \A i \in 1..Len(metrics') :
               /\ metrics'[i].metric \in DOMAIN metricState'
               /\ metricState'[metrics'[i].metric] =
                    [metric |-> metrics'[i].metric, label |-> metrics'[i].label,
                     unit |-> metrics'[i].unit, value |-> 0, timestamp |-> 0]
          /\ metrics' = METRIC_DESCRIPTORS
          /\ dirtyMetrics' = CatalogIds(metrics')
          /\ needsFullRedraw'
          /\ workerRaf']_vars
  /\ [][(RenderFrame /\ lastPass.kind = "never") =>
          /\ lastPass'.kind = "full"
          /\ lastPass'.painted = CatalogSeq]_vars

C16_Witness ==
  /\ resizes = 0
  /\ lastPass.kind = "full"
  /\ lastPass.painted = CatalogSeq
  /\ Len(lastPass.painted) = CatalogSize
  /\ appliedLog = <<>>
  /\ \A m \in CatalogIds(metrics) : metricState[m].value = 0

\* C17: applied to any reachable worker state, an update whose id has no
\* state adds a state that is a copy of the update (catalog id or not), and
\* an update whose id has a state changes that state's value and timestamp
\* only; no other metric's state changes either way.
C17_InsertOrUpdateInPlace ==
  LET ws == [metricState |-> metricState, latencySamples |-> latencySamples,
             dirtyMetrics |-> dirtyMetrics, pushed |-> <<>>]
  IN \A u \in WireContents :
       LET after == applyUpdate(ws, u, now).metricState IN
       /\ DOMAIN after = DOMAIN metricState \cup {u.metric}
       /\ \A m \in DOMAIN metricState \ {u.metric} : after[m] = metricState[m]
       /\ IF u.metric \notin DOMAIN metricState
          THEN after[u.metric] = u
          ELSE after[u.metric] =
                 [metric |-> metricState[u.metric].metric,
                  label |-> metricState[u.metric].label,
                  unit |-> metricState[u.metric].unit,
                  value |-> u.value, timestamp |-> u.timestamp]

C17_Witness ==
  /\ {"speed", "tirePressure"} \subseteq DOMAIN metricState
  /\ metricState["tirePressure"] = [metric |-> "tirePressure", label |-> WireLabel("tirePressure"),
                                    unit |-> WireUnit("tirePressure"), value |-> 30,
                                    timestamp |-> 0]
  /\ metricState["speed"] = [metric |-> "speed", label |-> "Speed", unit |-> "km/h",
                             value |-> 55, timestamp |-> ClockStep]
  /\ metricState["rpm"].value = 0

\* C18: a render pass with no full redraw pending clears and repaints
\* exactly the catalog cards whose id is dirty, in catalog order, and
\* nothing at all when no id is dirty; after any pass the DirtySet is empty
\* and the full-redraw flag is off.
C18_PartialPassRepaintsDirtyCards ==
  [][(RenderFrame /\ ctx) =>
       /\ (~needsFullRedraw /\ dirtyMetrics # {}) =>
            /\ lastPass'.kind = "partial"
            /\ lastPass'.cleared = SelectSeq(CatalogSeq, LAMBDA id : id \in dirtyMetrics)
            /\ lastPass'.painted = lastPass'.cleared
       /\ (~needsFullRedraw /\ dirtyMetrics = {}) =>
            /\ lastPass'.kind = "none"
            /\ lastPass'.cleared = <<>>
            /\ lastPass'.painted = <<>>
       /\ dirtyMetrics' = {}
       /\ ~needsFullRedraw']_vars

C18_Witness ==
  /\ lastPass.kind = "partial"
  /\ lastPass.cleared = <<"speed">>
  /\ lastPass.painted = <<"speed">>
  /\ LoggedMetrics(appliedLog) = {"speed", "tirePressure"}
  /\ dirtyMetrics = {}
  /\ ~needsFullRedraw

\* C19 as stated: outside the render pass no step removes an id from the
\* DirtySet.
C19_DirtyUnionOnly ==
  [][RenderFrame \/ dirtyMetrics \subseteq dirtyMetrics']_vars

\* C19 amended: outside the render pass no step removes a catalog id from
\* the DirtySet, and only a resize removes any id: it drops the ids that
\* are not in the catalog.
C19_DirtyUnionOnlyForCatalog ==
  [][\/ RenderFrame
     \/ dirtyMetrics \subseteq dirtyMetrics'
     \/ /\ HandleResize
        /\ dirtyMetrics' = CatalogIds(metrics)
        /\ dirtyMetrics \cap CatalogIds(metrics) \subseteq dirtyMetrics']_vars

C19_Witness ==
  /\ resizedSincePass
  /\ ctx
  /\ "tirePressure" \in LoggedMetrics(appliedLog)
  /\ "tirePressure" \notin dirtyMetrics
  /\ dirtyMetrics = CatalogIds(metrics)
  /\ lastPass.kind = "never"

\* C20: every card a render pass paints lies in a grid of 4 columns with a
\* gap of 16 and a card height of 120: cardWidth = (width - 16 * 5) / 4,
\* column = index mod 4, row = floor(index / 4), x = 16 + column *
\* (cardWidth + 16), y = 16 + row * 136; at width 1280 the cards are 300
\* wide and the card of index 5 is in row 1, column 1.  (Widths and x in
\* quarters of a pixel.)
C20_CardGridGeometry ==
  [][RenderFrame =>
       \A k \in 1..Len(lastPass'.painted) :
         LET index == CHOOSE i \in 0..(Len(metrics) - 1) :
                        metrics[i + 1].metric = lastPass'.painted[k]
             column == index % 4
             row == index \div 4
             rect == lastPass'.rects[k]
         IN /\ rect.cardWidthQ = width - 16 * 5
            /\ rect.cardHeight = 120
            /\ rect.xQ = 4 * 16 + column * (rect.cardWidthQ + 4 * 16)
            /\ rect.y = 16 + row * 136
            /\ width = 1280 => rect.cardWidthQ = 4 * 300
            /\ (width = 1280 /\ index = 5) =>
                 /\ rect.y = 16 + 1 * 136
                 /\ rect.xQ = 4 * (16 + 1 * (300 + 16))]_vars

C20_Witness ==
  /\ lastPass.kind = "full"
  /\ Len(lastPass.painted) = 20
  /\ width = 1280
  /\ toWorker # <<>>
  /\ lastPass.painted[6] = "fuelLevel"
  /\ lastPass.rects[6] = [xQ |-> 1328, y |-> 152, cardWidthQ |-> 1200, cardHeight |-> 120]
  /\ lastPass.rects[20] = [xQ |-> 4 * 964, y |-> 560, cardWidthQ |-> 1200, cardHeight |-> 120]

\* The number a painted value text reads as.
RECURSIVE textValue(_)
textValue(t) ==
  IF Len(t) = 1 THEN t[1]
  ELSE 10 * textValue(SubSeq(t, 1, Len(t) - 1)) + t[Len(t)]

\* Whether the card of metric m shows the value the render state holds.
ShowsCurrentValue(m, surf, state) ==
  /\ m \in DOMAIN surf
  /\ m \in DOMAIN state
  /\ textValue(surf[m]) = state[m].value

\* C21: once the engine is initialised, every completed render pass leaves
\* on each catalog card the value its render state holds; and at any time a
\* catalog card that does not show its state's value is in the DirtySet or
\* a full redraw is pending.
C21_PaintConsistency ==
  /\ [][(RenderFrame /\ ctx) =>
          \A m \in CatalogIds(metrics) :
            ShowsCurrentValue(m, surface', metricState')]_vars
  /\ []((canvas /\ ctx) =>
          \A m \in CatalogIds(metrics) :
            ~ShowsCurrentValue(m, surface, metricState) =>
              (m \in dirtyMetrics \/ needsFullRedraw))

C21_Witness ==
  /\ lastPass.kind = "partial"
  /\ Len(appliedLog) = 2
  /\ metricState["speed"].value = 55
  /\ surface["speed"] = <<5, 5>>
  /\ surface["rpm"] = <<0>>
  /\ dirtyMetrics = {}
  /\ ~needsFullRedraw

\* C22: init is the first message posted to the worker and is posted once,
\* so it is the first message handled: as long as init has not been handled
\* nothing but init heads the port, no update has been applied and no
\* resize handled, and every batch or resize is handled after init.
C22_InitHandledFirst ==
  /\ [](~canvas =>
          /\ toWorker # <<>> => Head(toWorker).type = "init"
          /\ appliedLog = <<>>
          /\ ~resizedSincePass)
  /\ [](\A i \in 2..Len(toWorker) : toWorker[i].type # "init")
  /\ [](canvas => \A i \in 1..Len(toWorker) : toWorker[i].type # "init")
  /\ [][(HandleBatch \/ HandleResize) => canvas]_vars

C22_Witness ==
  /\ ~canvas
  /\ Len(toWorker) = 3
  /\ toWorker[1].type = "init"
  /\ {toWorker[2].type, toWorker[3].type} = {"metricsBatch", "resize"}

\* C23: however often ensureMqttConnection is called, at most one client is
\* connected and one message handler registered, every call returns that
\* one client, and a received message is added to the buffer at most once.
C23_SingleConnection ==
  /\ [](/\ connection.connects <= 1
        /\ connection.handlers <= 1
        /\ connection.calls >= 1 =>
             /\ client
             /\ connection.connects = 1
             /\ connection.handlers = 1
             /\ connection.returned = {1})
  /\ [][MqttMessage =>
          /\ Len(queue') <= Len(queue) + 1
          /\ Len(addedLog') <= Len(addedLog) + 1]_vars

C23_Witness ==
  /\ connection.calls = MaxEnsureCalls
  /\ connection.connects = 1
  /\ connection.returned = {1}
  /\ workerRef
  /\ Len(addedLog) = 2
  /\ Len(drainedLog) + Len(queue) = 2

TypeOK ==
  /\ Len(addedLog) <= MaxAdds
  /\ dirtyMetrics \subseteq WireMetrics \cup CatalogIds(METRIC_DESCRIPTORS)

====
